---- MODULE Spec2Model ----
(***************************************************************************)
(* Protocol version / feature-gate registry of                             *)
(* core/primitives-core/src/version.rs: the ProtocolFeature catalog, the   *)
(* protocol_version table, the enabled gate, the PROTOCOL_VERSION and      *)
(* PEER_MIN_ALLOWED_PROTOCOL_VERSION constants and the checked_feature!    *)
(* macro, for every combination of the cargo features the file tests.      *)
(***************************************************************************)
EXTENDS Integers, Sequences, FiniteSets

VARIABLES
  cargo_features,  \* the cargo features switched on in this build
  op,              \* the item of version.rs that was evaluated, "none" before
  name,            \* checked_feature!: the $feature_name argument
  feature,         \* the ProtocolFeature the call is about
  version,         \* the protocol version argument of the call
  ret_version,     \* a returned ProtocolVersion
  ret_bool,        \* a returned bool
  body             \* checked_feature! branch forms: the block that ran

vars == <<cargo_features, op, name, feature, version, ret_version, ret_bool, body>>

\* Versions offered to a call lie within Window of the feature's own version.
Window == 1

\* The variants of the enum, in declaration order.
ProtocolFeature ==
  <<
    "ImplicitAccountCreation", "RectifyInflation", "AccessKeyNonceRange", "FixApplyChunks",
    "LowerStorageCost", "DeleteActionRestriction", "AccountVersions",
    "TransactionSizeLimit", "FixStorageUsage", "CapMaxGasPrice",
    "CountRefundReceiptsInGasLimit", "MathExtension", "RestoreReceiptsAfterFixApplyChunks",
    "Wasmer2", "SimpleNightshade", "LowerDataReceiptAndEcrecoverBaseCost",
    "LowerRegularOpCost", "LowerRegularOpCost2", "LimitContractFunctionsNumber",
    "BlockHeaderV3", "AliasValidatorSelectionAlgorithm", "SynchronizeBlockChunkProduction",
    "CorrectStackLimit", "AccessKeyNonceForImplicitAccounts", "IncreaseDeploymentCost",
    "FunctionCallWeight", "LimitContractLocals", "ChunkNodesCache", "LowerStorageKeyLimit",
    "AltBn128", "ChunkOnlyProducers", "MaxKickoutStake",
    "AccountIdInFunctionCallPermission", "ZeroBalanceAccount", "DelegateAction",
    "Ed25519Verify", "ComputeCosts", "DecreaseFunctionCallBaseCost", "FlatStorageReads",
    "PreparationV2", "NearVmRuntime", "BlockHeaderV4", "SimpleNightshadeV2",
    "SimpleNightshadeV3", "FixStakingThreshold", "FixContractLoadingCost",
    "RejectBlocksWithOutdatedProtocolVersions", "NonrefundableStorage", "BLS12381",
    "RestrictTla", "TestnetFewerBlockProducers", "StatelessValidationV0",
    "EthImplicitAccounts", "YieldExecution", "SimpleNightshadeTestonly",
    "LowerValidatorKickoutPercentForDebugging", "SingleShardTracking",
    "StateWitnessSizeLimit", "ShuffleShardAssignments", "PerReceiptHardStorageProofLimit",
    "CongestionControl", "RemoveAccountWithLongStorageKey", "PartialEncodedStateWitness",
    "WitnessTransactionLimits", "OutgoingReceiptsSizeLimit", "NoChunkOnlyProducers",
    "ChangePartialWitnessDataPartsRequired", "BiggerCombinedTransactionLimit",
    "HigherSendingCost"
  >>

Variants == {ProtocolFeature[i] : i \in DOMAIN ProtocolFeature}

\* The #[cfg(feature = ...)] attribute on a variant of the enum.
VariantCfg(f) ==
  CASE f = "FixStakingThreshold" -> "protocol_feature_fix_staking_threshold"
    [] f = "FixContractLoadingCost" -> "protocol_feature_fix_contract_loading_cost"
    [] f = "RejectBlocksWithOutdatedProtocolVersions" ->
         "protocol_feature_reject_blocks_with_outdated_protocol_version"
    [] f = "NonrefundableStorage" -> "protocol_feature_nonrefundable_transfer_nep491"
    [] f = "BLS12381" -> "protocol_feature_bls12381"
    [] OTHER -> "none"

FeatureSwitches == {VariantCfg(f) : f \in Variants} \ {"none"}

ChannelSwitches == {"statelessnet_protocol", "nightly_protocol"}

\* Every cargo feature name the file can test; "stable" is the name the macro
\* matches literally, and the one its branch form hands to #[cfg].
CargoFeatures == FeatureSwitches \cup ChannelSwitches \cup {"stable"}

\* cfg!(feature = flag), #[cfg(feature = flag)]
cfg(flag) == flag \in cargo_features

\* The variants that exist in this build.
Compiled == {f \in Variants : VariantCfg(f) = "none" \/ cfg(VariantCfg(f))}

\* Position of a variant in the enum.
CatalogIndex(f) == CHOOSE i \in DOMAIN ProtocolFeature : ProtocolFeature[i] = f

\* The arms of the match in protocol_version, in source order: the variants of
\* the arm's pattern, its value, the comment heading it stands under and its
\* #[cfg] attribute.
VersionTable ==
  <<
    [variants |-> {"ImplicitAccountCreation"},
     version |-> 35, section |-> "stable", cfg |-> "none"],
    [variants |-> {"LowerStorageCost"},
     version |-> 42, section |-> "stable", cfg |-> "none"],
    [variants |-> {"DeleteActionRestriction"},
     version |-> 43, section |-> "stable", cfg |-> "none"],
    [variants |-> {"FixApplyChunks"},
     version |-> 44, section |-> "stable", cfg |-> "none"],
    [variants |-> {"RectifyInflation", "AccessKeyNonceRange"},
     version |-> 45, section |-> "stable", cfg |-> "none"],
    [variants |-> {"AccountVersions", "TransactionSizeLimit", "FixStorageUsage", "CapMaxGasPrice", "CountRefundReceiptsInGasLimit", "MathExtension"},
     version |-> 46, section |-> "stable", cfg |-> "none"],
    [variants |-> {"RestoreReceiptsAfterFixApplyChunks"},
     version |-> 47, section |-> "stable", cfg |-> "none"],
    [variants |-> {"Wasmer2", "LowerDataReceiptAndEcrecoverBaseCost", "LowerRegularOpCost", "SimpleNightshade"},
     version |-> 48, section |-> "stable", cfg |-> "none"],
    [variants |-> {"LowerRegularOpCost2", "LimitContractFunctionsNumber", "BlockHeaderV3", "AliasValidatorSelectionAlgorithm"},
     version |-> 49, section |-> "stable", cfg |-> "none"],
    [variants |-> {"SynchronizeBlockChunkProduction", "CorrectStackLimit"},
     version |-> 50, section |-> "stable", cfg |-> "none"],
    [variants |-> {"AccessKeyNonceForImplicitAccounts"},
     version |-> 51, section |-> "stable", cfg |-> "none"],
    [variants |-> {"IncreaseDeploymentCost", "FunctionCallWeight", "LimitContractLocals", "ChunkNodesCache", "LowerStorageKeyLimit"},
     version |-> 53, section |-> "stable", cfg |-> "none"],
    [variants |-> {"AltBn128"},
     version |-> 55, section |-> "stable", cfg |-> "none"],
    [variants |-> {"ChunkOnlyProducers", "MaxKickoutStake"},
     version |-> 56, section |-> "stable", cfg |-> "none"],
    [variants |-> {"AccountIdInFunctionCallPermission"},
     version |-> 57, section |-> "stable", cfg |-> "none"],
    [variants |-> {"Ed25519Verify", "ZeroBalanceAccount", "DelegateAction"},
     version |-> 59, section |-> "stable", cfg |-> "none"],
    [variants |-> {"ComputeCosts", "FlatStorageReads"},
     version |-> 61, section |-> "stable", cfg |-> "none"],
    [variants |-> {"PreparationV2", "NearVmRuntime"},
     version |-> 62, section |-> "stable", cfg |-> "none"],
    [variants |-> {"BlockHeaderV4"},
     version |-> 63, section |-> "stable", cfg |-> "none"],
    [variants |-> {"RestrictTla", "TestnetFewerBlockProducers", "SimpleNightshadeV2"},
     version |-> 64, section |-> "stable", cfg |-> "none"],
    [variants |-> {"SimpleNightshadeV3"},
     version |-> 65, section |-> "stable", cfg |-> "none"],
    [variants |-> {"DecreaseFunctionCallBaseCost"},
     version |-> 66, section |-> "stable", cfg |-> "none"],
    [variants |-> {"YieldExecution"},
     version |-> 67, section |-> "stable", cfg |-> "none"],
    [variants |-> {"CongestionControl", "RemoveAccountWithLongStorageKey"},
     version |-> 68, section |-> "stable", cfg |-> "none"],
    [variants |-> {"StatelessValidationV0", "LowerValidatorKickoutPercentForDebugging", "SingleShardTracking", "StateWitnessSizeLimit", "PerReceiptHardStorageProofLimit", "PartialEncodedStateWitness", "WitnessTransactionLimits", "OutgoingReceiptsSizeLimit", "NoChunkOnlyProducers", "ChangePartialWitnessDataPartsRequired", "BiggerCombinedTransactionLimit", "HigherSendingCost"},
     version |-> 69, section |-> "stable", cfg |-> "none"],
    [variants |-> {"EthImplicitAccounts"},
     version |-> 70, section |-> "stable", cfg |-> "none"],
    [variants |-> {"SimpleNightshadeTestonly"},
     version |-> 100, section |-> "testonly", cfg |-> "none"],
    [variants |-> {"FixStakingThreshold"},
     version |-> 126, section |-> "nightly", cfg |-> "protocol_feature_fix_staking_threshold"],
    [variants |-> {"FixContractLoadingCost"},
     version |-> 129, section |-> "nightly", cfg |-> "protocol_feature_fix_contract_loading_cost"],
    [variants |-> {"RejectBlocksWithOutdatedProtocolVersions"},
     version |-> 132, section |-> "nightly", cfg |-> "protocol_feature_reject_blocks_with_outdated_protocol_version"],
    [variants |-> {"NonrefundableStorage"},
     version |-> 140, section |-> "nightly", cfg |-> "protocol_feature_nonrefundable_transfer_nep491"],
    [variants |-> {"BLS12381"},
     version |-> 141, section |-> "nightly", cfg |-> "protocol_feature_bls12381"],
    [variants |-> {"ShuffleShardAssignments"},
     version |-> 143, section |-> "nightly", cfg |-> "none"]
  >>

ArmCompiled(i) == VersionTable[i].cfg = "none" \/ cfg(VersionTable[i].cfg)

\* The arm of the match that lists f, whether or not the build compiles it.
ListedArm(f) == CHOOSE i \in DOMAIN VersionTable : f \in VersionTable[i].variants

\* The comment heading f's arm stands under: "stable" (Stable features),
\* "testonly" (reserved for use in resharding tests) or "nightly" (Nightly features).
Section(f) == VersionTable[ListedArm(f)].section

\* The arm of the match that takes self: the first compiled arm whose pattern
\* names it.
ArmOf(self) ==
  CHOOSE i \in DOMAIN VersionTable :
    /\ ArmCompiled(i)
    /\ self \in VersionTable[i].variants
    /\ \A j \in 1..(i - 1) : ~(ArmCompiled(j) /\ self \in VersionTable[j].variants)

protocol_version_FixApplyChunks46(self) ==
  IF self = "FixApplyChunks" THEN 46 ELSE VersionTable[ArmOf(self)].version

protocol_version_EthImplicitAccounts100(self) ==
  IF self = "EthImplicitAccounts" THEN 100 ELSE VersionTable[ArmOf(self)].version

protocol_version(self) == VersionTable[ArmOf(self)].version

enabled_strict(self, v) == v > protocol_version(self)

enabled(self, v) == v >= protocol_version(self)

STABLE_PROTOCOL_VERSION == 70

PROTOCOL_VERSION_nightly141 ==
  IF cfg("statelessnet_protocol") THEN 82
  ELSE IF cfg("nightly_protocol") THEN 141
  ELSE STABLE_PROTOCOL_VERSION

PROTOCOL_VERSION_swapped ==
  IF cfg("statelessnet_protocol") THEN 82
  ELSE IF cfg("nightly_protocol") THEN STABLE_PROTOCOL_VERSION
  ELSE 143

PROTOCOL_VERSION_nightly_first ==
  IF cfg("nightly_protocol") THEN 143
  ELSE IF cfg("statelessnet_protocol") THEN 82
  ELSE STABLE_PROTOCOL_VERSION

PROTOCOL_VERSION ==
  IF cfg("statelessnet_protocol") THEN 82
  ELSE IF cfg("nightly_protocol") THEN 143
  ELSE STABLE_PROTOCOL_VERSION

\* The branch of the cfg! chain that gives PROTOCOL_VERSION its value.
Channel ==
  IF cfg("statelessnet_protocol") THEN "statelessnet"
  ELSE IF cfg("nightly_protocol") THEN "nightly"
  ELSE "stable"

PEER_MIN_ALLOWED_of_channel == PROTOCOL_VERSION - 3

PEER_MIN_ALLOWED_plus == STABLE_PROTOCOL_VERSION + 3

\* A u32 subtraction in a const item: it is the integer difference whenever
\* that is not negative (a negative one does not build).
PEER_MIN_ALLOWED_PROTOCOL_VERSION == STABLE_PROTOCOL_VERSION - 3

checked_feature_strict(feature_name, f, current_protocol_version) ==
  IF feature_name = "stable" THEN protocol_version(f) < current_protocol_version
  ELSE IF cfg(feature_name) THEN protocol_version(f) < current_protocol_version
  ELSE FALSE

\* checked_feature!(name, F, v): the "stable" arm is tried first; the general
\* arm binds is_feature_enabled under #[cfg(feature = name)] or its negation.
checked_feature(feature_name, f, current_protocol_version) ==
  IF feature_name = "stable" THEN protocol_version(f) <= current_protocol_version
  ELSE IF cfg(feature_name) THEN protocol_version(f) <= current_protocol_version
  ELSE FALSE

\* The boolean form builds when the tokens that survive #[cfg] name a variant
\* that exists.
checked_feature_builds(feature_name, f) ==
  (feature_name = "stable" \/ cfg(feature_name)) => f \in Compiled

\* checked_feature!(name, F, v, feature_block, non_feature_block): the block
\* that runs.  Both halves hang on #[cfg(feature = name)], "stable" included.
checked_feature_branch(feature_name, f, current_protocol_version, feature_block, non_feature_block) ==
  IF cfg(feature_name)
  THEN IF checked_feature(feature_name, f, current_protocol_version)
       THEN feature_block
       ELSE non_feature_block
  ELSE non_feature_block

\* checked_feature!(name, F, v, feature_block): the five-argument form with {}.
checked_feature_branch_default(feature_name, f, current_protocol_version, feature_block) ==
  checked_feature_branch(feature_name, f, current_protocol_version, feature_block, "{}")

checked_feature_branch_builds(feature_name, f) ==
  cfg(feature_name) => f \in Compiled

\* The names handed to checked_feature! as $feature_name.
FeatureNames == FeatureSwitches \cup {"stable"}

\* The versions a call about feature f is tried with.
VersionInputs(f) ==
  {v \in (VersionTable[ListedArm(f)].version - Window)
         ..(VersionTable[ListedArm(f)].version + Window) : v >= 0}

Init ==
  /\ cargo_features \in SUBSET CargoFeatures
  /\ op = "none"
  /\ name = "none"
  /\ feature = "none"
  /\ version = 0
  /\ ret_version = 0
  /\ ret_bool = FALSE
  /\ body = "none"

ProtocolVersionCall ==
  /\ op = "none"
  /\ \E f \in Compiled :
       /\ feature' = f
       /\ ret_version' = protocol_version(f)
  /\ op' = "protocol_version"
  /\ UNCHANGED <<cargo_features, name, version, ret_bool, body>>

EnabledCall ==
  /\ op = "none"
  /\ \E f \in Compiled :
       \E v \in VersionInputs(f)
                  \cup {0, PEER_MIN_ALLOWED_PROTOCOL_VERSION, PROTOCOL_VERSION} :
         /\ feature' = f
         /\ version' = v
         /\ ret_bool' = enabled(f, v)
  /\ op' = "enabled"
  /\ UNCHANGED <<cargo_features, name, ret_version, body>>

ReadProtocolVersion ==
  /\ op = "none"
  /\ op' = "PROTOCOL_VERSION"
  /\ ret_version' = PROTOCOL_VERSION
  /\ UNCHANGED <<cargo_features, name, feature, version, ret_bool, body>>

ReadPeerMinAllowed ==
  /\ op = "none"
  /\ op' = "PEER_MIN_ALLOWED_PROTOCOL_VERSION"
  /\ ret_version' = PEER_MIN_ALLOWED_PROTOCOL_VERSION
  /\ UNCHANGED <<cargo_features, name, feature, version, ret_bool, body>>

CheckedFeatureCall ==
  /\ op = "none"
  /\ \E n \in FeatureNames, f \in Variants :
       /\ checked_feature_builds(n, f)
       /\ \E v \in VersionInputs(f) :
            /\ name' = n
            /\ feature' = f
            /\ version' = v
            /\ ret_bool' = checked_feature(n, f, v)
  /\ op' = "checked_feature"
  /\ UNCHANGED <<cargo_features, ret_version, body>>

CheckedFeatureBranchCall ==
  /\ op = "none"
  /\ \E n \in FeatureNames, f \in Variants :
       /\ checked_feature_branch_builds(n, f)
       /\ \E v \in VersionInputs(f) :
            /\ name' = n
            /\ feature' = f
            /\ version' = v
            /\ body' = checked_feature_branch(n, f, v, "feature_block", "non_feature_block")
  /\ op' = "checked_feature_branch"
  /\ UNCHANGED <<cargo_features, ret_version, ret_bool>>

CheckedFeatureBranchDefaultCall ==
  /\ op = "none"
  /\ \E n \in FeatureNames, f \in Variants :
       /\ checked_feature_branch_builds(n, f)
       /\ \E v \in VersionInputs(f) :
            /\ name' = n
            /\ feature' = f
            /\ version' = v
            /\ body' = checked_feature_branch_default(n, f, v, "feature_block")
  /\ op' = "checked_feature_branch_default"
  /\ UNCHANGED <<cargo_features, ret_version, ret_bool>>

Next ==
  \/ ProtocolVersionCall
  \/ EnabledCall
  \/ ReadProtocolVersion
  \/ ReadPeerMinAllowed
  \/ CheckedFeatureCall
  \/ CheckedFeatureBranchCall
  \/ CheckedFeatureBranchDefaultCall

Spec == Init /\ [][Next]_vars

----------------------------------------------------------------------------
\* The variants without a #[cfg] attribute: they exist in every build.
AlwaysCompiled == {f \in Variants : VariantCfg(f) = "none"}

Sentinel == "SimpleNightshadeTestonly"

BranchOps == {"checked_feature_branch", "checked_feature_branch_default"}

\* C1: enabled(f, v) is true exactly when v >= f.protocol_version(); it is true
\* at v = f.protocol_version() and false at v = f.protocol_version() - 1.
C1_GateCorrect ==
  op = "enabled" =>
    /\ ret_bool <=> ~(version < protocol_version(feature))
    /\ version = protocol_version(feature) => ret_bool
    /\ version = protocol_version(feature) - 1 => ~ret_bool

C1_Witness ==
  /\ op = "enabled"
  /\ feature = "BLS12381"
  /\ version = protocol_version(feature) - 1
  /\ ~ret_bool

\* C2: PEER_MIN_ALLOWED_PROTOCOL_VERSION is the stable version minus 3, that is
\* 67, in every build, whatever PROTOCOL_VERSION the build's channel gives.
C2_PeerFloor ==
  /\ PEER_MIN_ALLOWED_PROTOCOL_VERSION = 67
  /\ PEER_MIN_ALLOWED_PROTOCOL_VERSION + 3 = STABLE_PROTOCOL_VERSION
  /\ op = "PEER_MIN_ALLOWED_PROTOCOL_VERSION" => ret_version = 67

C2_Witness ==
  /\ op = "PEER_MIN_ALLOWED_PROTOCOL_VERSION"
  /\ Channel = "nightly"
  /\ PROTOCOL_VERSION # STABLE_PROTOCOL_VERSION
  /\ ret_version = 67

\* C3: on the nightly channel PROTOCOL_VERSION is the largest version of the
\* table, nightly features included, so every feature of the build is enabled
\* at PROTOCOL_VERSION.
C3_NightlyMax ==
  Channel = "nightly" =>
    /\ op = "PROTOCOL_VERSION" =>
         /\ \A i \in DOMAIN VersionTable : VersionTable[i].version <= ret_version
         /\ \A f \in Compiled : protocol_version(f) <= ret_version
         /\ \E f \in Compiled : protocol_version(f) = ret_version
    /\ op = "protocol_version" => ret_version <= PROTOCOL_VERSION
    /\ (op = "enabled" /\ version = PROTOCOL_VERSION) => ret_bool

C3_Witness ==
  /\ Channel = "nightly"
  /\ op = "enabled"
  /\ feature = "ShuffleShardAssignments"
  /\ version = PROTOCOL_VERSION
  /\ ret_bool

\* C4: on the stable channel PROTOCOL_VERSION (70) is below the version of
\* every feature listed under "Nightly features", none of which is enabled at
\* it, and every feature listed under "Stable features" is enabled at it.
C4_StableCeiling ==
  Channel = "stable" =>
    /\ PROTOCOL_VERSION = 70
    /\ op = "protocol_version" =>
         /\ Section(feature) = "nightly" => PROTOCOL_VERSION < ret_version
         /\ Section(feature) = "stable" => ret_version <= PROTOCOL_VERSION
    /\ (op = "enabled" /\ version = PROTOCOL_VERSION) =>
         /\ Section(feature) = "nightly" => ~ret_bool
         /\ Section(feature) = "stable" => ret_bool

C4_Witness ==
  /\ Channel = "stable"
  /\ op = "enabled"
  /\ feature = "FixStakingThreshold"
  /\ version = PROTOCOL_VERSION
  /\ ~ret_bool

\* C5 as stated: a build with more than one channel switch on is rejected and
\* yields no PROTOCOL_VERSION.
C5_MultiChannelRejected ==
  Cardinality(cargo_features \cap ChannelSwitches) > 1 => op # "PROTOCOL_VERSION"

\* C5 as amended: a build with both channel switches on is accepted, and its
\* PROTOCOL_VERSION is the statelessnet one (82): statelessnet_protocol takes
\* precedence over nightly_protocol, which takes precedence over stable.
C5_ChannelPrecedence ==
  op = "PROTOCOL_VERSION" =>
    /\ cfg("statelessnet_protocol") => ret_version = 82
    /\ (~cfg("statelessnet_protocol") /\ cfg("nightly_protocol")) => ret_version = 143
    /\ (cargo_features \cap ChannelSwitches = {}) => ret_version = STABLE_PROTOCOL_VERSION

C5_Witness ==
  /\ op = "PROTOCOL_VERSION"
  /\ ChannelSwitches \subseteq cargo_features
  /\ ret_version = 82

\* C6 as stated: always-compiled features have non-decreasing versions in the
\* order of the feature catalog (the enum).
C6_CatalogOrderMonotonic ==
  (op = "protocol_version" /\ feature \in AlwaysCompiled) =>
    \A f2 \in AlwaysCompiled :
      CatalogIndex(feature) < CatalogIndex(f2) => ret_version <= protocol_version(f2)

\* C6 as amended: always-compiled features have non-decreasing versions in the
\* order of their entries in the version table (the match of protocol_version).
C6_TableOrderMonotonic ==
  (op = "protocol_version" /\ feature \in AlwaysCompiled) =>
    \A f2 \in AlwaysCompiled :
      ArmOf(feature) < ArmOf(f2) => ret_version <= protocol_version(f2)

C6_Witness ==
  /\ op = "protocol_version"
  /\ feature = "RectifyInflation"
  /\ CatalogIndex(feature) < CatalogIndex("FixApplyChunks")
  /\ ArmOf("FixApplyChunks") < ArmOf(feature)
  /\ ret_version > protocol_version("FixApplyChunks")

\* C7 as stated: the version of SimpleNightshadeTestonly (100) is strictly
\* greater than the version of every other feature of the build.
C7_SentinelAboveAll ==
  (op = "protocol_version" /\ feature # Sentinel) =>
    ret_version < protocol_version(Sentinel)

\* C7 as amended: the version of SimpleNightshadeTestonly (100) is strictly
\* greater than the version of every feature listed under "Stable features",
\* and no other feature of the build has it as its version; the features listed
\* under "Nightly features" lie above it.
C7_SentinelIsolated ==
  (op = "protocol_version" /\ feature # Sentinel) =>
    /\ ret_version # protocol_version(Sentinel)
    /\ Section(feature) = "stable" => ret_version < protocol_version(Sentinel)
    /\ Section(feature) = "nightly" => ret_version > protocol_version(Sentinel)

C7_Witness ==
  /\ op = "protocol_version"
  /\ feature = "ShuffleShardAssignments"
  /\ cargo_features = {}
  /\ ret_version > protocol_version(Sentinel)

\* C8: checked_feature!(name, F, v) is F.enabled(v) when name is "stable", false
\* when name is a switch that is off, and F.enabled(v) when name is a switch
\* that is on.
C8_BooleanForm ==
  op = "checked_feature" =>
    /\ name = "stable" => ret_bool = enabled(feature, version)
    /\ (name # "stable" /\ ~cfg(name)) => ret_bool = FALSE
    /\ (name # "stable" /\ cfg(name)) => ret_bool = enabled(feature, version)

C8_Witness ==
  /\ op = "checked_feature"
  /\ name = "protocol_feature_bls12381"
  /\ ~cfg(name)
  /\ feature = "ImplicitAccountCreation"
  /\ enabled(feature, version)
  /\ ~ret_bool

\* C9: for every name the boolean form accepts, "stable" included, the branch
\* forms run the enabled body exactly when checked_feature!(name, F, v) is true
\* and the disabled body otherwise.
C9_BranchFollowsBoolean ==
  (op \in BranchOps /\ checked_feature_builds(name, feature)) =>
    /\ body = "feature_block" <=> checked_feature(name, feature, version)
    /\ body # "feature_block" =>
         body = (IF op = "checked_feature_branch" THEN "non_feature_block" ELSE "{}")

\* C10: in every channel PROTOCOL_VERSION is at least
\* PEER_MIN_ALLOWED_PROTOCOL_VERSION, and the floor is positive: the
\* subtraction does not underflow.
C10_OwnVersionAdmitted ==
  /\ PEER_MIN_ALLOWED_PROTOCOL_VERSION >= 1
  /\ PROTOCOL_VERSION >= PEER_MIN_ALLOWED_PROTOCOL_VERSION
  /\ op = "PROTOCOL_VERSION" => ret_version >= PEER_MIN_ALLOWED_PROTOCOL_VERSION

C10_Witness ==
  /\ op = "PROTOCOL_VERSION"
  /\ Channel = "stable"
  /\ ret_version = 70
  /\ ret_version >= PEER_MIN_ALLOWED_PROTOCOL_VERSION

====
